---- MODULE Spec2Model ----
(***************************************************************************)
(* Model of brain_tumor_3d.py: the start-up sequence of MainWindow (volume *)
(* loading, per-label surface pipelines, tumor settings widget), the Qt    *)
(* value-changed / clicked handlers and the three camera presets.          *)
(*                                                                         *)
(* Conventions.  Python lists are sequences, so Python index idx is        *)
(* position idx+1.  Scalars of a volume are kept in tenths (3.7 is 37).    *)
(* Opacities are kept in thousandths (0.2 is 200).  RGB components are     *)
(* kept in tenths.  A Python None is the record None.  Objects of the      *)
(* visualisation library are records tagged with their class in "kind".    *)
(***************************************************************************)
EXTENDS Integers, Sequences, FiniteSets, TLC

VARIABLES
    files,               \* the two input files, as found on disk
    phase,               \* how far MainWindow.__init__ has got
    error,               \* the uncaught exception that ended the program, or None
    renderer,            \* vtkRenderer: the actors registered with it
    brain,               \* NiiObject of the structural scan
    tumor,               \* NiiObject of the segmentation
    brain_threshold_sp,  \* QSpinBox
    brain_opacity_sp,    \* QDoubleSpinBox
    brain_smoothness_sp, \* QSpinBox
    tumor_opacity_sp,    \* QDoubleSpinBox
    tumor_smoothness_sp, \* QSpinBox
    tumor_label_cbs,     \* the four QCheckBox of the tumor labels
    camera,              \* the renderer's active camera
    shown,               \* self.show() has been called
    stack,               \* handlers suspended inside process_changes, innermost last
    first_view,          \* the camera each preset left when first requested
    ran,                 \* pipeline stages executed by the last step, per label
    last                 \* the handler the last step ran to completion

vars == <<files, phase, error, renderer, brain, tumor, brain_threshold_sp,
          brain_opacity_sp, brain_smoothness_sp, tumor_opacity_sp,
          tumor_smoothness_sp, tumor_label_cbs, camera, shown, stack, first_view,
          ran, last>>

widgets == <<brain_threshold_sp, brain_opacity_sp, brain_smoothness_sp,
             tumor_opacity_sp, tumor_smoothness_sp, tumor_label_cbs>>

----------------------------------------------------------------------------
(* Module-level settings of the program.                                   *)

BRAIN_THRESHOLD == 20
BRAIN_SMOOTHNESS == 500
BRAIN_OPACITY == 200
BRAIN_COLORS == << <<10, 9, 9>> >>
TUMOR_SMOOTHNESS == 500
TUMOR_COLORS == << <<10, 0, 0>>, <<0, 10, 0>>, <<5, 5, 0>>, <<0, 0, 10>> >>
TUMOR_OPACITY == 1000

None == [kind |-> "None"]

----------------------------------------------------------------------------
(* Bounds of the model.                                                    *)

\* deepest nesting of handlers suspended in process_changes
MaxDepth == 2
\* the presets are explored while the view angle (millidegrees) is above this
MinViewAngle == 2500
\* radius of the bounding sphere of the scene
SceneRadius == 100

\* centre of the bounding box of the scene
SceneCenter == <<10, 20, 30>>

\* scalar values (tenths) a segmentation voxel can take besides background 0
TumorScalars == {10, 20, 30, 37, 40, 50}
\* scalar value sets (tenths) of the structural scans
BrainVolumes == {{0, 100}, {0, 6000}}
\* values typed into the threshold spin box (range 0..1000)
ThresholdValues == {0, 20, 1000}
\* values typed into the smoothness spin boxes (range 100..1000)
SmoothnessValues == {100, 500}
\* values typed into the opacity spin boxes (range 0.0..1.0, two decimals)
OpacityValues == {0, 200, 1000}

----------------------------------------------------------------------------
(* Input files and the volume reader.                                      *)

MissingFile == [found |-> FALSE, gz |-> FALSE, parsable |-> FALSE, values |-> {}]

FilesWith(volumes) ==
    {MissingFile}
    \cup {[found |-> TRUE, gz |-> g, parsable |-> FALSE, values |-> {}] : g \in BOOLEAN}
    \cup {[found |-> TRUE, gz |-> g, parsable |-> TRUE, values |-> v] :
             g \in BOOLEAN, v \in volumes}

TumorVolumes == {{0} \cup s : s \in SUBSET TumorScalars}

SetMax(s) == CHOOSE x \in s : \A y \in s : y <= x
SetMin(s) == CHOOSE x \in s : \A y \in s : x <= y

\* reader.Update() raises nothing: a file that cannot be read leaves the
\* reader with an empty output and an error on the library's output window.
read_volume(file) ==
    [kind |-> "vtkNIFTIImageReader",
     output |-> IF file.found /\ file.parsable THEN file.values ELSE {}]

\* GetScalarRange() of the reader's output; (0, 1) when there are no scalars
GetScalarRange(output) ==
    IF output = {} THEN <<0, 10>> ELSE <<SetMin(output), SetMax(output)>>

\* int(x) of a non-negative float kept in tenths
PyInt(tenths) == tenths \div 10

----------------------------------------------------------------------------
(* The surface pipeline of one label:                                      *)
(* extractor -> reducer -> smoother -> normals -> stripper -> mapper.      *)
(* Each filter keeps its parameters, whether a parameter changed since it  *)
(* last executed, and the output of its last execution.                    *)

Stages == <<"extractor", "reducer", "smoother", "normals", "stripper">>

NiiObject == [file |-> None, reader |-> None, labels |-> <<>>]

NiiLabel(color, opacity, smoothness) ==
    [actor |-> None, property |-> None, smoother |-> None,
     color |-> color, opacity |-> opacity, smoothness |-> smoothness,
     extractor |-> None, reducer |-> None, normals |-> None,
     stripper |-> None, mapper |-> None]

\* whether iso-contouring `input` at contour value `value` yields polygons
HasCells(kind, input, value) ==
    IF kind = "vtkFlyingEdges3D"
    THEN \E a \in input, b \in input : a < 10 * value /\ 10 * value <= b
    ELSE (10 * value) \in input

create_brain_extractor(nii) ==
    [kind |-> "vtkFlyingEdges3D", input |-> nii.reader.output,
     values |-> <<BRAIN_THRESHOLD>>, modified |-> TRUE, output |-> None]

create_tumor_extractor(nii) ==
    [kind |-> "vtkDiscreteMarchingCubes", input |-> nii.reader.output,
     values |-> <<>>, modified |-> TRUE, output |-> None]

\* extractor.SetValue(0, value): the filter is marked modified only when
\* the contour value changes
SetValue(extractor, value) ==
    IF extractor.values = <<value>> THEN extractor
    ELSE [extractor EXCEPT !.values = <<value>>, !.modified = TRUE]

\* smoother.SetNumberOfIterations(n): likewise
SetNumberOfIterations(smoother, n) ==
    IF smoother.iterations = n THEN smoother
    ELSE [smoother EXCEPT !.iterations = n, !.modified = TRUE]

create_polygon_reducer ==
    [kind |-> "vtkDecimatePro", targetReduction |-> 5, preserveTopology |-> TRUE,
     modified |-> TRUE, output |-> None]

create_smoother(smoothness) ==
    [kind |-> "vtkSmoothPolyDataFilter", iterations |-> smoothness,
     modified |-> TRUE, output |-> None]

create_normals ==
    [kind |-> "vtkPolyDataNormals", featureAngle |-> 60,
     modified |-> TRUE, output |-> None]

create_stripper ==
    [kind |-> "vtkStripper", modified |-> TRUE, output |-> None]

create_mapper == [kind |-> "vtkPolyDataMapper", scalarVisibility |-> FALSE]

create_property(opacity, color) ==
    [kind |-> "vtkProperty", color |-> color, opacity |-> opacity]

create_actor(id) == [kind |-> "vtkActor", id |-> id]

\* one execution of stage `name` of a label, from its upstream output
Execute(label, name) ==
    LET st == label[name]
        out ==
          CASE name = "extractor" ->
                 [iso |-> st.values[1],
                  cells |-> HasCells(st.kind, st.input, st.values[1])]
            [] name = "reducer" ->
                 [iso |-> label.extractor.output.iso,
                  cells |-> label.extractor.output.cells,
                  reduction |-> st.targetReduction]
            [] name = "smoother" ->
                 [iso |-> label.reducer.output.iso,
                  cells |-> label.reducer.output.cells,
                  reduction |-> label.reducer.output.reduction,
                  iterations |-> st.iterations]
            [] name = "normals" ->
                 [iso |-> label.smoother.output.iso,
                  cells |-> label.smoother.output.cells,
                  reduction |-> label.smoother.output.reduction,
                  iterations |-> label.smoother.output.iterations,
                  featureAngle |-> st.featureAngle]
            [] OTHER ->
                 [iso |-> label.normals.output.iso,
                  cells |-> label.normals.output.cells,
                  reduction |-> label.normals.output.reduction,
                  iterations |-> label.normals.output.iterations,
                  featureAngle |-> label.normals.output.featureAngle,
                  strips |-> TRUE]
    IN  [label EXCEPT ![name] = [st EXCEPT !.output = out, !.modified = FALSE]]

\* Demand-driven update of stages k.. of a label's chain, as the library's
\* executive does it: upstream first; a stage executes when it never ran,
\* when one of its parameters changed, or when its upstream just executed.
\* Returns the label and the stages executed, in order.
RECURSIVE UpdateFrom(_, _, _, _, _)
UpdateFrom(label, k, upto, upstreamRan, log) ==
    IF k > upto THEN [label |-> label, ran |-> log]
    ELSE LET name == Stages[k]
             st == label[name]
         IN  IF st.modified \/ upstreamRan \/ st.output = None
             THEN UpdateFrom(Execute(label, name), k + 1, upto, TRUE, Append(log, name))
             ELSE UpdateFrom(label, k + 1, upto, FALSE, log)

\* extractor.Update()
UpdateExtractor(label) == UpdateFrom(label, 1, 1, FALSE, <<>>).label

\* mapper.Update(), also what rendering the label's actor does
UpdateMapper(label) == UpdateFrom(label, 1, Len(Stages), FALSE, <<>>)

\* renderer.AddActor(actor): the library ignores a null actor
AddActor(r, actor) ==
    IF actor = None THEN r ELSE [r EXCEPT !.actors = @ \cup {actor.id}]

\* render_window.Render() for the labels of one NiiObject: every actor
\* registered with the renderer brings its chain up to date
RenderLabels(r, labels) ==
    [i \in DOMAIN labels |->
        IF labels[i].actor # None /\ labels[i].actor.id \in r.actors
        THEN UpdateMapper(labels[i])
        ELSE [label |-> labels[i], ran |-> <<>>]]

RenderedLabels(r, labels) ==
    [i \in DOMAIN labels |-> RenderLabels(r, labels)[i].label]

RenderedStages(r, labels) ==
    [i \in DOMAIN labels |-> RenderLabels(r, labels)[i].ran]

NothingRan(labels) == [i \in DOMAIN labels |-> <<>>]

\* label_idx is the Python index of the label
add_surface_rendering(nii, label_idx, label_value) ==
    LET l0 == nii.labels[label_idx + 1]
        l1 == UpdateExtractor([l0 EXCEPT !.extractor = SetValue(@, label_value)])
        l2 == [l1 EXCEPT !.reducer = create_polygon_reducer,
                         !.smoother = create_smoother(l1.smoothness),
                         !.normals = create_normals,
                         !.stripper = create_stripper,
                         !.mapper = create_mapper]
        l3 == [UpdateMapper(l2).label EXCEPT
                         !.property = create_property(l1.opacity, l1.color),
                         !.actor = create_actor(<<nii.file, label_idx>>)]
    IN  \* GetMaxCellSize() is 0 when the extraction has no polygons
        IF l1.extractor.output.cells
        THEN [nii EXCEPT !.labels[label_idx + 1] = l3]
        ELSE [nii EXCEPT !.labels[label_idx + 1] = l1]

----------------------------------------------------------------------------
(* Start-up: MainWindow.__init__.                                          *)

Exception(kind, where) == [kind |-> kind, where |-> where]

\* the stages executed while a label was built
BuiltStages(label) ==
    IF label.actor # None THEN Stages ELSE <<"extractor">>

setup_brain(r) ==
    LET b1 == [NiiObject EXCEPT !.file = "BRAIN_FILE",
                                !.reader = read_volume(files.brain)]
        b2 == [b1 EXCEPT !.labels = Append(@,
                  NiiLabel(BRAIN_COLORS[1], BRAIN_OPACITY, BRAIN_SMOOTHNESS))]
        b3 == [b2 EXCEPT !.labels[1].extractor = create_brain_extractor(b2)]
        b4 == add_surface_rendering(b3, 0, 20)
    IN  [nii |-> b4, renderer |-> AddActor(r, b4.labels[1].actor), error |-> None]

\* the loop of setup_tumor from Python index label_idx on
RECURSIVE setup_tumor_loop(_, _, _, _)
setup_tumor_loop(t, r, label_idx, n_labels) ==
    IF label_idx >= n_labels
    THEN [nii |-> t, renderer |-> r, error |-> None]
    ELSE IF label_idx >= Len(TUMOR_COLORS)
    THEN [nii |-> t, renderer |-> r,
          error |-> Exception("IndexError", "setup_tumor")]
    ELSE LET t1 == [t EXCEPT !.labels = Append(@,
                       NiiLabel(TUMOR_COLORS[label_idx + 1], TUMOR_OPACITY,
                                TUMOR_SMOOTHNESS))]
             t2 == [t1 EXCEPT !.labels[label_idx + 1].extractor =
                                   create_tumor_extractor(t1)]
             t3 == add_surface_rendering(t2, label_idx, label_idx + 1)
         IN  setup_tumor_loop(t3, AddActor(r, t3.labels[label_idx + 1].actor),
                              label_idx + 1, n_labels)

setup_tumor(r) ==
    LET t1 == [NiiObject EXCEPT !.file = "TUMOR_FILE",
                                !.reader = read_volume(files.tumor)]
        n_labels == PyInt(GetScalarRange(t1.reader.output)[2])
    IN  setup_tumor_loop(t1, r, 0, n_labels)

create_new_picker(max_value, min_value, step, picker_value, double) ==
    [kind |-> IF double THEN "QDoubleSpinBox" ELSE "QSpinBox",
     maximum |-> max_value, minimum |-> min_value, singleStep |-> step,
     value |-> picker_value]

QCheckBox(text) ==
    [kind |-> "QCheckBox", text |-> text, checked |-> FALSE, enabled |-> TRUE,
     clicked |-> None]

\* the loop over the check boxes of add_tumor_settings_widget, from index i on
RECURSIVE label_cb_loop(_, _, _)
label_cb_loop(cbs, labels, i) ==
    IF i >= Len(cbs)
    THEN [cbs |-> cbs, error |-> None]
    ELSE IF i >= Len(labels)
    THEN [cbs |-> cbs,
          error |-> Exception("IndexError", "add_tumor_settings_widget")]
    ELSE IF labels[i + 1].actor # None
    THEN label_cb_loop([cbs EXCEPT ![i + 1].checked = TRUE,
                                   ![i + 1].clicked = [kind |-> "tumor_label_checked"]],
                       labels, i + 1)
    ELSE label_cb_loop([cbs EXCEPT ![i + 1].enabled = FALSE], labels, i + 1)

add_tumor_settings_widget(t) ==
    label_cb_loop(<<QCheckBox("Label 1"), QCheckBox("Label 2"),
                    QCheckBox("Label 3"), QCheckBox("Label 4")>>, t.labels, 0)

Init ==
    /\ files \in [brain : FilesWith(BrainVolumes), tumor : FilesWith(TumorVolumes)]
    /\ phase = "start"
    /\ error = None
    /\ renderer = [kind |-> "vtkRenderer", actors |-> {}]
    /\ brain = NiiObject
    /\ tumor = NiiObject
    /\ brain_threshold_sp = None
    /\ brain_opacity_sp = None
    /\ brain_smoothness_sp = None
    /\ tumor_opacity_sp = None
    /\ tumor_smoothness_sp = None
    /\ tumor_label_cbs = <<>>
    /\ camera = None
    /\ shown = FALSE
    /\ stack = <<>>
    /\ first_view = [axial |-> None, coronal |-> None, sagittal |-> None]
    /\ ran = [brain |-> <<>>, tumor |-> <<>>]
    /\ last = [op |-> "init"]

\* line 69, first half
SetupBrain ==
    /\ phase = "start"
    /\ LET res == setup_brain(renderer)
       IN  /\ brain' = res.nii
           /\ renderer' = res.renderer
           /\ ran' = [ran EXCEPT !.brain =
                         [i \in DOMAIN res.nii.labels |-> BuiltStages(res.nii.labels[i])]]
    /\ phase' = "brain"
    /\ last' = [op |-> "setup_brain"]
    /\ UNCHANGED <<files, error, tumor, widgets, camera, shown, stack, first_view>>

\* line 69, second half
SetupTumor ==
    /\ phase = "brain"
    /\ LET res == setup_tumor(renderer)
       IN  /\ tumor' = res.nii
           /\ renderer' = res.renderer
           /\ error' = res.error
           /\ phase' = IF res.error = None THEN "tumor" ELSE "error"
           /\ ran' = [brain |-> NothingRan(brain.labels),
                      tumor |-> [i \in DOMAIN res.nii.labels |->
                                    BuiltStages(res.nii.labels[i])]]
    /\ last' = [op |-> "setup_tumor"]
    /\ UNCHANGED <<files, brain, widgets, camera, shown, stack, first_view>>

\* lines 78-95: the pickers, then the widgets
CreateWidgets ==
    /\ phase = "tumor"
    /\ brain_threshold_sp' = create_new_picker(1000, 0, 5, BRAIN_THRESHOLD, FALSE)
    /\ brain_opacity_sp' = create_new_picker(1000, 0, 100, BRAIN_OPACITY, TRUE)
    /\ brain_smoothness_sp' = create_new_picker(1000, 100, 100, BRAIN_SMOOTHNESS, FALSE)
    /\ tumor_opacity_sp' = create_new_picker(1000, 0, 100, TUMOR_OPACITY, TRUE)
    /\ tumor_smoothness_sp' = create_new_picker(1000, 100, 100, TUMOR_SMOOTHNESS, FALSE)
    /\ LET res == add_tumor_settings_widget(tumor)
       IN  /\ tumor_label_cbs' = res.cbs
           /\ error' = res.error
           /\ phase' = IF res.error = None THEN "widgets" ELSE "error"
    /\ ran' = [brain |-> NothingRan(brain.labels), tumor |-> NothingRan(tumor.labels)]
    /\ last' = [op |-> "add_tumor_settings_widget"]
    /\ UNCHANGED <<files, renderer, brain, tumor, camera, shown, stack, first_view>>

----------------------------------------------------------------------------
(* The camera presets.  Positions are integer world coordinates, the view  *)
(* angle is in millidegrees, and a view-up vector is kept as passed, in    *)
(* tenths (the library normalises it).                                     *)

RECURSIVE IsqrtIn(_, _, _)
IsqrtIn(n, lo, hi) ==
    IF lo >= hi THEN lo
    ELSE LET mid == (lo + hi + 1) \div 2
         IN  IF mid * mid <= n THEN IsqrtIn(n, mid, hi) ELSE IsqrtIn(n, lo, mid - 1)

\* math.sqrt, to the integer below
Sqrt(n) == IsqrtIn(n, 0, IF n < 46340 THEN n ELSE 46340)

\* math.sqrt((p[0] - fp[0]) ** 2 + (p[1] - fp[1]) ** 2 + (p[2] - fp[2]) ** 2)
Distance(p, fp) ==
    Sqrt((p[1] - fp[1]) * (p[1] - fp[1]) + (p[2] - fp[2]) * (p[2] - fp[2])
         + (p[3] - fp[3]) * (p[3] - fp[3]))

\* a new vtkCamera
DefaultCamera ==
    [kind |-> "vtkCamera", position |-> <<0, 0, 1>>, focalPoint |-> <<0, 0, 0>>,
     viewUp |-> <<0, 10, 0>>, viewAngle |-> 30000]

\* the library's radius / sin(viewAngle / 2), with sin x taken as x
ResetDistance(radius, viewAngle) == (radius * 114592) \div viewAngle

\* renderer.ResetCamera(): the focal point moves to the centre of the scene
\* and the camera backs off along its current direction until the scene's
\* bounding sphere fills the view angle; the view angle itself is kept.
\* (The view-up is only touched when it is parallel to the direction, which
\* no preset leaves behind.)
ResetCamera(cam) ==
    LET len == Distance(cam.position, cam.focalPoint)
        d == ResetDistance(SceneRadius, cam.viewAngle)
    IN  [cam EXCEPT
           !.focalPoint = SceneCenter,
           !.position = [i \in 1..3 |->
               SceneCenter[i] + (d * (cam.position[i] - cam.focalPoint[i])) \div len]]

\* camera.Zoom(factor) in perspective projection divides the view angle
Zoom(cam, tenths) == [cam EXCEPT !.viewAngle = (@ * 10) \div tenths]

set_axial_view(cam) ==
    LET c == ResetCamera(cam)
        fp == c.focalPoint
        dist == Distance(c.position, fp)
    IN  Zoom([c EXCEPT !.position = <<fp[1], fp[2], fp[3] + dist>>,
                       !.viewUp = <<0, 10, 0>>], 18)

set_coronal_view(cam) ==
    LET c == ResetCamera(cam)
        fp == c.focalPoint
        dist == Distance(c.position, fp)
    IN  Zoom([c EXCEPT !.position = <<fp[1], fp[3] + dist, fp[2]>>,
                       !.viewUp = <<0, 5, 5>>], 18)

set_sagittal_view(cam) ==
    LET c == ResetCamera(cam)
        fp == c.focalPoint
        dist == Distance(c.position, fp)
    IN  Zoom([c EXCEPT !.position = <<fp[3] + dist, fp[2], fp[1]>>,
                       !.viewUp = <<0, 5, 5>>], 18)

\* render_window.Render() of the whole scene
Render(b, t) ==
    /\ brain' = [b EXCEPT !.labels = RenderedLabels(renderer, b.labels)]
    /\ tumor' = [t EXCEPT !.labels = RenderedLabels(renderer, t.labels)]
    /\ ran' = [brain |-> RenderedStages(renderer, b.labels),
               tumor |-> RenderedStages(renderer, t.labels)]

\* lines 98-104: the first render creates the camera and resets it
ShowWindow ==
    /\ phase = "widgets"
    /\ Render(brain, tumor)
    /\ camera' = set_axial_view(ResetCamera(DefaultCamera))
    /\ first_view' = [first_view EXCEPT !.axial = camera']
    /\ shown' = TRUE
    /\ phase' = "running"
    /\ last' = [op |-> "show"]
    /\ UNCHANGED <<files, error, renderer, widgets, stack>>

Startup == SetupBrain \/ SetupTumor \/ CreateWidgets \/ ShowWindow

SetAxialView ==
    /\ phase = "running"
    /\ camera.viewAngle > MinViewAngle
    /\ camera' = set_axial_view(camera)
    /\ Render(brain, tumor)
    /\ first_view' = IF first_view.axial = None
                      THEN [first_view EXCEPT !.axial = camera']
                      ELSE first_view
    /\ last' = [op |-> "set_axial_view"]
    /\ UNCHANGED <<files, phase, error, renderer, widgets, shown, stack>>

SetCoronalView ==
    /\ phase = "running"
    /\ camera.viewAngle > MinViewAngle
    /\ camera' = set_coronal_view(camera)
    /\ Render(brain, tumor)
    /\ first_view' = IF first_view.coronal = None
                      THEN [first_view EXCEPT !.coronal = camera']
                      ELSE first_view
    /\ last' = [op |-> "set_coronal_view"]
    /\ UNCHANGED <<files, phase, error, renderer, widgets, shown, stack>>

SetSagittalView ==
    /\ phase = "running"
    /\ camera.viewAngle > MinViewAngle
    /\ camera' = set_sagittal_view(camera)
    /\ Render(brain, tumor)
    /\ first_view' = IF first_view.sagittal = None
                      THEN [first_view EXCEPT !.sagittal = camera']
                      ELSE first_view
    /\ last' = [op |-> "set_sagittal_view"]
    /\ UNCHANGED <<files, phase, error, renderer, widgets, shown, stack>>

\* both files are there and are read
InitLoaded ==
    /\ Init
    /\ \A f \in {files.brain, files.tumor} : f.found /\ f.gz /\ f.parsable

NextCamera == Startup \/ SetAxialView \/ SetCoronalView \/ SetSagittalView

SpecStartup == Init /\ [][Startup]_vars

SpecCamera == InitLoaded /\ [][NextCamera]_vars

----------------------------------------------------------------------------
(* The handlers.  A value-changed signal reaches its handler with the spin *)
(* box already holding the new value.  The threshold and smoothness        *)
(* handlers start with process_changes, which runs the event loop: any     *)
(* other handler can run to completion, or start and suspend in turn,      *)
(* before the suspended one resumes.  `stack` holds the suspended ones.    *)
(* An exception that leaves a handler ends the program.                    *)

Running == phase = "running"

setValue(sp, v) == [sp EXCEPT !.value = v]

\* round(x, 2) of a value kept in thousandths
Round2(x) == ((x + 5) \div 10) * 10

SetOpacity(prop, opacity) == [prop EXCEPT !.opacity = opacity]

SetColor(prop, color) == [prop EXCEPT !.color = color]

\* a handler suspended in process_changes, with the value its valueChanged
\* signal was emitted with
Frame(handler, value) == [handler |-> handler, value |-> value]

Top(s) == s[Len(s)]

Pop(s) == SubSeq(s, 1, Len(s) - 1)

Raise(kind, where) ==
    /\ phase' = "error"
    /\ error' = Exception(kind, where)
    /\ ran' = [brain |-> NothingRan(brain.labels), tumor |-> NothingRan(tumor.labels)]
    /\ UNCHANGED <<brain, tumor>>

\* brain_threshold_vc writing the contour value without the filter noticing
brain_threshold_vc_unmarked(b, sp) ==
    [b EXCEPT !.labels[1].extractor.values = <<sp.value>>]

\* lines 248-249, after process_changes has returned
brain_threshold_vc(b, sp) ==
    [b EXCEPT !.labels[1].extractor = SetValue(@, sp.value)]

\* lines 254-255
brain_smoothness_vc(b, sp) ==
    [b EXCEPT !.labels[1].smoother = SetNumberOfIterations(@, sp.value)]

\* tumor_smoothness_vc that also touches the extractor of each present label
tumor_smoothness_vc_reextract(t, sp) ==
    [t EXCEPT !.labels = [i \in DOMAIN t.labels |->
        IF t.labels[i].smoother # None
        THEN [t.labels[i] EXCEPT !.smoother = SetNumberOfIterations(@, sp.value),
                                 !.extractor.modified = TRUE]
        ELSE t.labels[i]]]

\* lines 267-270
tumor_smoothness_vc(t, sp) ==
    [t EXCEPT !.labels = [i \in DOMAIN t.labels |->
        IF t.labels[i].smoother # None
        THEN [t.labels[i] EXCEPT !.smoother = SetNumberOfIterations(@, sp.value)]
        ELSE t.labels[i]]]

\* lines 242-243
brain_opacity_vc(b, sp) ==
    [b EXCEPT !.labels[1].property = SetOpacity(@, Round2(sp.value))]

\* lines 259-262
tumor_opacity_vc(t, sp) ==
    [t EXCEPT !.labels = [i \in DOMAIN t.labels |->
        IF t.labels[i].property # None
        THEN [t.labels[i] EXCEPT !.property = SetOpacity(@, Round2(sp.value))]
        ELSE t.labels[i]]]

\* lines 216-220; the labels are those under the check boxes
tumor_label_checked(t, cbs, sp) ==
    [t EXCEPT !.labels = [i \in DOMAIN t.labels |->
        IF i \notin DOMAIN cbs THEN t.labels[i]
        ELSE IF cbs[i].checked
        THEN [t.labels[i] EXCEPT !.property = SetOpacity(@, sp.value)]
        ELSE IF cbs[i].enabled
        THEN [t.labels[i] EXCEPT !.property = SetOpacity(@, 0)]
        ELSE t.labels[i]]]

\* the check boxes whose branch of tumor_label_checked reads a missing
\* label or a missing property
LabelCheckedFails(t, cbs) ==
    {i \in DOMAIN cbs :
        /\ cbs[i].checked \/ cbs[i].enabled
        /\ (i \notin DOMAIN t.labels \/ t.labels[i].property = None)}

\* tumor_single_color_radio_checked that also overwrites the stored colour
tumor_single_color_overwrites_palette(t) ==
    [t EXCEPT !.labels = [i \in DOMAIN t.labels |->
        IF t.labels[i].property # None
        THEN [t.labels[i] EXCEPT !.property = SetColor(@, TUMOR_COLORS[1]),
                                 !.color = TUMOR_COLORS[1]]
        ELSE t.labels[i]]]

\* lines 224-226
tumor_single_color_radio_checked(t) ==
    [t EXCEPT !.labels = [i \in DOMAIN t.labels |->
        IF t.labels[i].property # None
        THEN [t.labels[i] EXCEPT !.property = SetColor(@, TUMOR_COLORS[1])]
        ELSE t.labels[i]]]

\* lines 230-232
tumor_multi_color_radio_checked(t) ==
    [t EXCEPT !.labels = [i \in DOMAIN t.labels |->
        IF t.labels[i].property # None
        THEN [t.labels[i] EXCEPT !.property = SetColor(@, t.labels[i].color)]
        ELSE t.labels[i]]]

\* the threshold spin box is edited: brain_threshold_vc starts and suspends
\* in process_changes (line 247)
BrainThresholdEdited ==
    /\ Running /\ Len(stack) < MaxDepth
    /\ \E v \in ThresholdValues \ {brain_threshold_sp.value} :
          /\ brain_threshold_sp' = setValue(brain_threshold_sp, v)
          /\ stack' = Append(stack, Frame("brain_threshold_vc", v))
    /\ ran' = [brain |-> NothingRan(brain.labels), tumor |-> NothingRan(tumor.labels)]
    /\ last' = [op |-> "valueChanged"]
    /\ UNCHANGED <<files, phase, error, renderer, brain, tumor, brain_opacity_sp,
                   brain_smoothness_sp, tumor_opacity_sp, tumor_smoothness_sp,
                   tumor_label_cbs, camera, shown, first_view>>

\* brain_threshold_vc taking the value its signal was emitted with, that is,
\* reading the spin box before process_changes instead of after it
BrainThresholdVc_reads_before ==
    /\ Running /\ stack # <<>> /\ Top(stack).handler = "brain_threshold_vc"
    /\ Render(brain_threshold_vc(brain, setValue(brain_threshold_sp, Top(stack).value)),
              tumor)
    /\ stack' = Pop(stack)
    /\ last' = [op |-> "brain_threshold_vc"]
    /\ UNCHANGED <<files, phase, error, renderer, widgets, camera, shown, first_view>>

\* brain_threshold_vc resumes (lines 248-250): the spin box is read now
BrainThresholdVc ==
    /\ Running /\ stack # <<>> /\ Top(stack).handler = "brain_threshold_vc"
    /\ Render(brain_threshold_vc(brain, brain_threshold_sp), tumor)
    /\ stack' = Pop(stack)
    /\ last' = [op |-> "brain_threshold_vc"]
    /\ UNCHANGED <<files, phase, error, renderer, widgets, camera, shown, first_view>>

\* the brain smoothness spin box is edited (line 253)
BrainSmoothnessEdited ==
    /\ Running /\ Len(stack) < MaxDepth
    /\ \E v \in SmoothnessValues \ {brain_smoothness_sp.value} :
          /\ brain_smoothness_sp' = setValue(brain_smoothness_sp, v)
          /\ stack' = Append(stack, Frame("brain_smoothness_vc", v))
    /\ ran' = [brain |-> NothingRan(brain.labels), tumor |-> NothingRan(tumor.labels)]
    /\ last' = [op |-> "valueChanged"]
    /\ UNCHANGED <<files, phase, error, renderer, brain, tumor, brain_threshold_sp,
                   brain_opacity_sp, tumor_opacity_sp, tumor_smoothness_sp,
                   tumor_label_cbs, camera, shown, first_view>>

\* brain_smoothness_vc resumes (lines 254-256); without a brain surface the
\* smoother is None and the call on it raises
BrainSmoothnessVc ==
    /\ Running /\ stack # <<>> /\ Top(stack).handler = "brain_smoothness_vc"
    /\ IF brain.labels[1].smoother = None
       THEN Raise("AttributeError", "brain_smoothness_vc")
       ELSE /\ Render(brain_smoothness_vc(brain, brain_smoothness_sp), tumor)
            /\ UNCHANGED <<phase, error>>
    /\ stack' = Pop(stack)
    /\ last' = [op |-> "brain_smoothness_vc"]
    /\ UNCHANGED <<files, renderer, widgets, camera, shown, first_view>>

\* the tumor smoothness spin box is edited (line 266)
TumorSmoothnessEdited ==
    /\ Running /\ Len(stack) < MaxDepth
    /\ \E v \in SmoothnessValues \ {tumor_smoothness_sp.value} :
          /\ tumor_smoothness_sp' = setValue(tumor_smoothness_sp, v)
          /\ stack' = Append(stack, Frame("tumor_smoothness_vc", v))
    /\ ran' = [brain |-> NothingRan(brain.labels), tumor |-> NothingRan(tumor.labels)]
    /\ last' = [op |-> "valueChanged"]
    /\ UNCHANGED <<files, phase, error, renderer, brain, tumor, brain_threshold_sp,
                   brain_opacity_sp, brain_smoothness_sp, tumor_opacity_sp,
                   tumor_label_cbs, camera, shown, first_view>>

\* tumor_smoothness_vc resumes (lines 267-271)
TumorSmoothnessVc ==
    /\ Running /\ stack # <<>> /\ Top(stack).handler = "tumor_smoothness_vc"
    /\ Render(brain, tumor_smoothness_vc(tumor, tumor_smoothness_sp))
    /\ stack' = Pop(stack)
    /\ last' = [op |-> "tumor_smoothness_vc"]
    /\ UNCHANGED <<files, phase, error, renderer, widgets, camera, shown, first_view>>

\* the brain opacity spin box is edited: brain_opacity_vc (lines 241-244)
BrainOpacityVc ==
    /\ Running
    /\ \E v \in OpacityValues \ {brain_opacity_sp.value} :
          /\ brain_opacity_sp' = setValue(brain_opacity_sp, v)
          /\ IF brain.labels[1].property = None
             THEN Raise("AttributeError", "brain_opacity_vc")
             ELSE /\ Render(brain_opacity_vc(brain, brain_opacity_sp'), tumor)
                  /\ UNCHANGED <<phase, error>>
    /\ last' = [op |-> "brain_opacity_vc"]
    /\ UNCHANGED <<files, renderer, brain_threshold_sp, brain_smoothness_sp,
                   tumor_opacity_sp, tumor_smoothness_sp, tumor_label_cbs,
                   camera, shown, stack, first_view>>

\* the tumor opacity spin box is edited: tumor_opacity_vc (lines 258-263)
TumorOpacityVc ==
    /\ Running
    /\ \E v \in OpacityValues \ {tumor_opacity_sp.value} :
          /\ tumor_opacity_sp' = setValue(tumor_opacity_sp, v)
          /\ Render(brain, tumor_opacity_vc(tumor, tumor_opacity_sp'))
    /\ last' = [op |-> "tumor_opacity_vc"]
    /\ UNCHANGED <<files, phase, error, renderer, brain_threshold_sp,
                   brain_opacity_sp, brain_smoothness_sp, tumor_smoothness_sp,
                   tumor_label_cbs, camera, shown, stack, first_view>>

\* an enabled, connected check box is clicked: it toggles, then
\* tumor_label_checked runs (lines 215-221)
TumorLabelChecked ==
    /\ Running
    /\ \E i \in DOMAIN tumor_label_cbs :
          /\ tumor_label_cbs[i].enabled
          /\ tumor_label_cbs[i].clicked # None
          /\ tumor_label_cbs' =
                [tumor_label_cbs EXCEPT ![i].checked = ~tumor_label_cbs[i].checked]
          /\ IF LabelCheckedFails(tumor, tumor_label_cbs') # {}
             THEN Raise("AttributeError", "tumor_label_checked")
             ELSE /\ Render(brain, tumor_label_checked(tumor, tumor_label_cbs',
                                                       tumor_opacity_sp))
                  /\ UNCHANGED <<phase, error>>
    /\ last' = [op |-> "tumor_label_checked"]
    /\ UNCHANGED <<files, renderer, brain_threshold_sp, brain_opacity_sp,
                   brain_smoothness_sp, tumor_opacity_sp, tumor_smoothness_sp,
                   camera, shown, stack, first_view>>

\* the Single Color radio button is clicked (lines 223-227)
TumorSingleColorRadioChecked ==
    /\ Running
    /\ Render(brain, tumor_single_color_radio_checked(tumor))
    /\ last' = [op |-> "tumor_single_color_radio_checked"]
    /\ UNCHANGED <<files, phase, error, renderer, widgets, camera, shown, stack, first_view>>

\* the Multi Color radio button is clicked (lines 229-233)
TumorMultiColorRadioChecked ==
    /\ Running
    /\ Render(brain, tumor_multi_color_radio_checked(tumor))
    /\ last' = [op |-> "tumor_multi_color_radio_checked"]
    /\ UNCHANGED <<files, phase, error, renderer, widgets, camera, shown, stack, first_view>>

NextPipeline ==
    \/ Startup
    \/ BrainThresholdEdited \/ BrainThresholdVc
    \/ BrainSmoothnessEdited \/ BrainSmoothnessVc
    \/ TumorSmoothnessEdited \/ TumorSmoothnessVc
    \/ TumorSingleColorRadioChecked \/ TumorMultiColorRadioChecked

NextLabels ==
    \/ Startup
    \/ BrainOpacityVc \/ TumorOpacityVc \/ TumorLabelChecked
    \/ TumorSingleColorRadioChecked \/ TumorMultiColorRadioChecked

\* start-up with both files in order
SpecLoaded == InitLoaded /\ [][Startup]_vars

\* start-up, then threshold, smoothness and colour-mode changes
SpecPipeline == InitLoaded /\ [][NextPipeline]_vars

\* start-up, then opacity, visibility and colour-mode changes
SpecLabels == InitLoaded /\ [][NextLabels]_vars

----------------------------------------------------------------------------
(* Claims about start-up.                                                  *)

Min(a, b) == IF a <= b THEN a ELSE b

\* setup_tumor has run (to its end or to an exception)
TumorSetupRan == tumor.reader # None

\* the widgets have been built without an exception
WidgetsBuilt == phase \in {"widgets", "running"}

\* the scalar maximum of the segmentation volume as read, in tenths
TumorScalarMax == GetScalarRange(tumor.reader.output)[2]

\* C1: for every segmentation volume with scalar maximum M, setup_tumor
\* completes and creates exactly min(floor(M), 4) labels; the label at Python
\* index i has palette colour i and iso-value i + 1.
C1_LabelCountIsCappedFloor ==
    TumorSetupRan =>
        /\ ~(phase = "error" /\ error.where = "setup_tumor")
        /\ Len(tumor.labels) = Min(TumorScalarMax \div 10, Len(TUMOR_COLORS))
        /\ \A i \in DOMAIN tumor.labels :
              /\ tumor.labels[i].color = TUMOR_COLORS[i]
              /\ tumor.labels[i].extractor.values = <<i>>

\* the tumor labels whose extraction yielded no polygon
EmptyLabels ==
    {i \in DOMAIN tumor.labels : ~tumor.labels[i].extractor.output.cells}

\* C2: when the extraction of some tumor label yields zero polygons, start-up
\* (setup_tumor, then add_tumor_settings_widget) completes without an error;
\* that label has no actor, nothing is registered for it with the renderer
\* and its check box is disabled, while every label with a non-empty
\* extraction is built and its check box is enabled and checked.
C2_EmptyLabelIsDisabledNotFatal ==
    (TumorSetupRan /\ EmptyLabels # {}) =>
        /\ phase # "error"
        /\ \A i \in EmptyLabels :
              /\ tumor.labels[i].actor = None
              /\ <<"TUMOR_FILE", i - 1>> \notin renderer.actors
              /\ WidgetsBuilt => ~tumor_label_cbs[i].enabled
        /\ \A i \in DOMAIN tumor.labels \ EmptyLabels :
              /\ tumor.labels[i].actor # None
              /\ <<"TUMOR_FILE", i - 1>> \in renderer.actors
              /\ WidgetsBuilt =>
                    tumor_label_cbs[i].enabled /\ tumor_label_cbs[i].checked

\* C3: when fewer than four labels are discovered, add_tumor_settings_widget
\* completes, and every check box beyond the discovered labels is disabled.
C3_FewerLabelsWidgetCompletes ==
    (TumorSetupRan /\ Len(tumor.labels) < 4) =>
        /\ ~(phase = "error" /\ error.where = "add_tumor_settings_widget")
        /\ WidgetsBuilt =>
              \A i \in (Len(tumor.labels) + 1)..4 : ~tumor_label_cbs[i].enabled

BadFile(f) == ~f.found \/ ~f.gz \/ ~f.parsable

\* C9: when either input file is missing, lacks the compressed-volume
\* extension or cannot be parsed, the program rejects it before loading,
\* reports a load error, and builds no extractor, no actor and no window.
C9_BadFileIsRejectedAtStartup ==
    (BadFile(files.brain) \/ BadFile(files.tumor)) =>
        /\ brain.reader = None /\ tumor.reader = None
        /\ brain.labels = <<>> /\ tumor.labels = <<>>
        /\ renderer.actors = {}
        /\ ~shown
        /\ phase # "start" => (phase = "error" /\ error.kind = "LoadError")

----------------------------------------------------------------------------
(* Claims about the running program.                                       *)

AllLabels == {brain.labels[i] : i \in DOMAIN brain.labels}
             \cup {tumor.labels[i] : i \in DOMAIN tumor.labels}

\* C4: in every reachable state a label has an actor only if its extractor
\* yields polygons at the extractor's current iso-value; in particular for
\* the brain label after brain_threshold_vc.
C4_ActorOnlyIfExtractionNonEmpty ==
    \A l \in AllLabels :
        l.actor # None =>
            HasCells(l.extractor.kind, l.extractor.input, l.extractor.values[1])

SmoothOnward == <<"smoother", "normals", "stripper">>

\* what a smoothness handler may do to one label: extractor and reducer
\* (parameters, state and output) stay as they are and do not run; the
\* smoother, if there is one, holds `value`, and smoother, normals and
\* stripper run exactly when the iteration count changed
SmoothnessStep(old, new, stagesRan, value) ==
    /\ new.extractor = old.extractor
    /\ new.reducer = old.reducer
    /\ new.actor = old.actor
    /\ IF old.smoother = None
       THEN new = old /\ stagesRan = <<>>
       ELSE /\ new.smoother.iterations = value
            /\ new.smoother.output.iterations = value
            /\ new.stripper.output.iterations = value
            /\ stagesRan = IF old.smoother.iterations = value
                           THEN <<>> ELSE SmoothOnward

\* C5: a smoothness change (brain_smoothness_vc or tumor_smoothness_vc)
\* leaves the extract and reduce stages of every label and their parameters
\* unchanged and does not re-run them; the smoother of each present label of
\* the handler's object gets the new iteration count, and only smoother,
\* normals and stripper run again.
C5_SmoothnessRerunsFromSmoothOnly ==
    [][ /\ last'.op = "brain_smoothness_vc" =>
              /\ tumor' = tumor
              /\ ran'.tumor = NothingRan(tumor.labels)
              /\ DOMAIN brain'.labels = DOMAIN brain.labels
              /\ \A i \in DOMAIN brain.labels :
                    SmoothnessStep(brain.labels[i], brain'.labels[i],
                                   ran'.brain[i], brain_smoothness_sp.value)
        /\ last'.op = "tumor_smoothness_vc" =>
              /\ brain' = brain
              /\ ran'.brain = NothingRan(brain.labels)
              /\ DOMAIN tumor'.labels = DOMAIN tumor.labels
              /\ \A i \in DOMAIN tumor.labels :
                    SmoothnessStep(tumor.labels[i], tumor'.labels[i],
                                   ran'.tumor[i], tumor_smoothness_sp.value)
      ]_vars

\* a tumor smoothness change has re-run smooth, normals and strip of a
\* present label with a new iteration count, next to an absent label
C5_Witness ==
    /\ last.op = "tumor_smoothness_vc"
    /\ tumor_smoothness_sp.value # TUMOR_SMOOTHNESS
    /\ \E i \in DOMAIN tumor.labels :
          /\ ran.tumor[i] = SmoothOnward
          /\ tumor.labels[i].smoother.iterations = tumor_smoothness_sp.value
    /\ \E i \in DOMAIN tumor.labels : tumor.labels[i].actor = None

C7_SingleColorOnlyRecolours ==
    [][ last'.op = "tumor_single_color_radio_checked" =>
          /\ phase' = phase /\ error' = error
          /\ brain' = brain
          /\ ran' = [brain |-> NothingRan(brain.labels),
                     tumor |-> NothingRan(tumor.labels)]
          /\ DOMAIN tumor'.labels = DOMAIN tumor.labels
          /\ \A i \in DOMAIN tumor.labels :
                LET old == tumor.labels[i]
                    new == tumor'.labels[i]
                IN  IF old.property = None
                    THEN new = old
                    ELSE /\ new.property.color = TUMOR_COLORS[1]
                         /\ new.property.opacity = old.property.opacity
                         /\ [new EXCEPT !.property = old.property] = old
      ]_vars

\* single colour has been chosen with a present label of another palette
\* colour and an absent label
C7_Witness ==
    /\ last.op = "tumor_single_color_radio_checked"
    /\ \E i \in DOMAIN tumor.labels :
          /\ tumor.labels[i].property # None
          /\ tumor.labels[i].color # TUMOR_COLORS[1]
          /\ tumor.labels[i].property.color = TUMOR_COLORS[1]
    /\ \E i \in DOMAIN tumor.labels : tumor.labels[i].property = None

\* the part of the camera the presets set
CameraState(cam) ==
    [position |-> cam.position, focalPoint |-> cam.focalPoint,
     viewUp |-> cam.viewUp, viewAngle |-> cam.viewAngle]

\* C8: the presets do not drift: whenever a view is requested again, after
\* any sequence of other view requests, the camera state (position, focal
\* point, view-up, view angle) is the one the first request of that view
\* left; the zoom factor is not accumulated.
C8_PresetsDoNotDrift ==
    /\ last.op = "set_axial_view" => CameraState(camera) = CameraState(first_view.axial)
    /\ last.op = "set_coronal_view" => CameraState(camera) = CameraState(first_view.coronal)
    /\ last.op = "set_sagittal_view" => CameraState(camera) = CameraState(first_view.sagittal)

\* C10: visibility is kept across opacity changes: every present tumor label
\* whose check box is unchecked has opacity 0, and every present label whose
\* check box is checked has the opacity of the tumor opacity spin box.
C10_HiddenLabelStaysHidden ==
    phase = "running" =>
        \A i \in DOMAIN tumor_label_cbs :
            tumor.labels[i].actor # None =>
                IF tumor_label_cbs[i].checked
                THEN tumor.labels[i].property.opacity = tumor_opacity_sp.value
                ELSE tumor.labels[i].property.opacity = 0
\* every handler suspended in process_changes has returned
AllReturned == phase = "running" /\ stack = <<>>

\* C11: whatever the nesting of the threshold and smoothness handlers was,
\* once all of them have returned the brain extractor's iso-value equals the
\* threshold spin box's current value, and the iteration count of the brain
\* smoother and of every tumor smoother equals the current value of its
\* smoothness spin box: no older value written by an outer handler remains.
C11_NestedChangesConvergeToLastValue ==
    AllReturned =>
        /\ brain.labels[1].extractor.values = <<brain_threshold_sp.value>>
        /\ brain.labels[1].smoother # None =>
              brain.labels[1].smoother.iterations = brain_smoothness_sp.value
        /\ \A i \in DOMAIN tumor.labels :
              tumor.labels[i].smoother # None =>
                  tumor.labels[i].smoother.iterations = tumor_smoothness_sp.value

\* an outer brain_threshold_vc has resumed last, after a nested one had
\* already set a new value: its SetValue changed nothing and nothing re-ran
C11_Witness ==
    /\ AllReturned
    /\ last.op = "brain_threshold_vc"
    /\ brain.labels[1].actor # None
    /\ ran.brain[1] = <<>>
    /\ brain_threshold_sp.value # BRAIN_THRESHOLD
    /\ brain.labels[1].extractor.values = <<brain_threshold_sp.value>>

====
